---- MODULE Spec2Model ----
(***************************************************************************)
(* Model of src/src/api/evaluate/evaluators.py: the evaluation glue of the *)
(* article writer.  The module builds configuration from environment       *)
(* variables, constructs vendor evaluator objects, opens a tracing span    *)
(* and returns fixed result literals.                                      *)
(*                                                                         *)
(* Python values are tagged records ([t |-> "int", n |-> 5], ...).  A      *)
(* Python str is a sequence of chunks: each chunk is either one character  *)
(* that json.dumps escapes (quote, backslash, newline) or a maximal run of *)
(* characters it copies.  Text(chunks) is the str's text.                  *)
(***************************************************************************)
EXTENDS Integers, Sequences, FiniteSets, TLC

VARIABLES env, stack, history

vars == <<env, stack, history>>

-----------------------------------------------------------------------------
(* Bounds of the model. *)

\* Number of top-level calls a behaviour makes.
MaxCalls == 2

\* Number of configuration names unset in an environment that sets any.
MaxUnset == 1

-----------------------------------------------------------------------------
(* Python values. *)

Quote == "\""
Backslash == "\\"
Newline == "\n"

\* The characters json.dumps escapes, among those the model's strings hold.
Special == {Quote, Backslash, Newline}

\* A str holding a run of characters json.dumps copies unchanged.
Plain(s) == IF s = "" THEN <<>> ELSE <<s>>

\* str + str, keeping the chunking canonical (adjacent runs are merged).
Cat(a, b) ==
    IF a = <<>> THEN b
    ELSE IF b = <<>> THEN a
    ELSE IF a[Len(a)] \notin Special /\ b[1] \notin Special
         THEN SubSeq(a, 1, Len(a) - 1) \o <<a[Len(a)] \o b[1]>> \o Tail(b)
         ELSE a \o b

RECURSIVE Text(_)
Text(chunks) == IF chunks = <<>> THEN "" ELSE chunks[1] \o Text(Tail(chunks))

PyNone == [t |-> "none"]
PyInt(n) == [t |-> "int", n |-> n]
PyStr(chunks) == [t |-> "str", s |-> chunks]
PyList(xs) == [t |-> "list", xs |-> xs]
\* A dict is its items in insertion order, each <<key chunks, value>>.
PyDict(items) == [t |-> "dict", items |-> items]
\* A value json.dumps has no encoding for (a set, a class instance, ...).
PyObject == [t |-> "object"]
\* A list whose only element is itself (l = []; l.append(l)).
PyCircular == [t |-> "circular"]
\* A list nested deeper than the interpreter's recursion limit.
PyDeep == [t |-> "deep"]

Keys(d) == {d.items[i][1] : i \in 1..Len(d.items)}
Get(d, k) == d.items[CHOOSE i \in 1..Len(d.items) : d.items[i][1] = k][2]

-----------------------------------------------------------------------------
(* json.dumps with its default arguments. *)

\* One character of a str as json.dumps writes it inside the quotes.
EscapeChunk(c) ==
    CASE c = Quote -> <<Backslash, Quote>>
      [] c = Backslash -> <<Backslash, Backslash>>
      [] c = Newline -> <<Backslash, "n">>
      [] OTHER -> <<c>>

RECURSIVE Escape(_)
Escape(chunks) ==
    IF chunks = <<>> THEN <<>>
    ELSE Cat(EscapeChunk(chunks[1]), Escape(Tail(chunks)))

EncodeStr(chunks) == Cat(Cat(<<Quote>>, Escape(chunks)), <<Quote>>)

\* The exceptions json.dumps raises for the values of the model.
TypeError == "TypeError: Object of type object is not JSON serializable"
ValueError == "ValueError: Circular reference detected"
RecursionError ==
    "RecursionError: maximum recursion depth exceeded while encoding a JSON object"

\* No exception.
NoError == ""

\* The exception json.dumps(x) raises, NoError when it returns: the encoder
\* walks x depth first and stops at the first value it cannot write.
RECURSIVE JsonError(_), FirstError(_, _)
JsonError(x) ==
    CASE x.t = "object" -> TypeError
      [] x.t = "circular" -> ValueError
      [] x.t = "deep" -> RecursionError
      [] x.t = "list" -> FirstError(x.xs, 1)
      [] x.t = "dict" -> FirstError([i \in 1..Len(x.items) |-> x.items[i][2]], 1)
      [] OTHER -> NoError

FirstError(xs, i) ==
    IF i > Len(xs) THEN NoError
    ELSE IF JsonError(xs[i]) # NoError THEN JsonError(xs[i])
    ELSE FirstError(xs, i + 1)

\* json.dumps(x) returns.
Serializable(x) == JsonError(x) = NoError

RECURSIVE JsonEncode(_), EncodeList(_, _), EncodeItems(_, _)
JsonEncode(x) ==
    CASE x.t = "none" -> <<"null">>
      [] x.t = "int" -> <<ToString(x.n)>>
      [] x.t = "str" -> EncodeStr(x.s)
      [] x.t = "list" -> Cat(Cat(<<"[">>, EncodeList(x.xs, 1)), <<"]">>)
      [] x.t = "dict" -> Cat(Cat(<<"{">>, EncodeItems(x.items, 1)), <<"}">>)

EncodeList(xs, i) ==
    IF i > Len(xs) THEN <<>>
    ELSE Cat(Cat(IF i > 1 THEN <<", ">> ELSE <<>>, JsonEncode(xs[i])),
             EncodeList(xs, i + 1))

EncodeItems(items, i) ==
    IF i > Len(items) THEN <<>>
    ELSE Cat(Cat(Cat(IF i > 1 THEN <<", ">> ELSE <<>>, EncodeStr(items[i][1])),
                 Cat(<<": ">>, JsonEncode(items[i][2]))),
             EncodeItems(items, i + 1))

\* json.dumps(x): the str it returns; it raises JsonError(x) when
\* ~Serializable(x).
JsonDumps(x) == PyStr(JsonEncode(x))


-----------------------------------------------------------------------------
(* repr(), as print() writes a value that is not a str.  The model's strs  *)
(* hold no single quote, so repr always picks single quotes.               *)
(*                                                                         *)
(* PyRepr is defined on the values whose repr is one text: None, ints,     *)
(* strs, the circular list, and lists and dicts of these.  The program     *)
(* prints only its own result literals, which are such values.  The repr   *)
(* of an object() holds the object's address, which differs from run to    *)
(* run, and the repr of a list nested too deep raises (ReprError): PyRepr  *)
(* has no text for either.                                                 *)

\* The exception repr() raises for a list nested too deep.
ReprRecursionError ==
    "RecursionError: maximum recursion depth exceeded while getting the repr of an object"

\* The exception repr(x) raises, NoError when it returns.
RECURSIVE ReprError(_), FirstReprError(_, _)
ReprError(x) ==
    CASE x.t = "deep" -> ReprRecursionError
      [] x.t = "list" -> FirstReprError(x.xs, 1)
      [] x.t = "dict" ->
           FirstReprError([i \in 1..Len(x.items) |-> x.items[i][2]], 1)
      [] OTHER -> NoError

FirstReprError(xs, i) ==
    IF i > Len(xs) THEN NoError
    ELSE IF ReprError(xs[i]) # NoError THEN ReprError(xs[i])
    ELSE FirstReprError(xs, i + 1)

ReprChunk(c) ==
    CASE c = Backslash -> <<Backslash, Backslash>>
      [] c = Newline -> <<Backslash, "n">>
      [] OTHER -> <<c>>

RECURSIVE ReprEscape(_)
ReprEscape(chunks) ==
    IF chunks = <<>> THEN <<>>
    ELSE Cat(ReprChunk(chunks[1]), ReprEscape(Tail(chunks)))

ReprStr(chunks) == Cat(Cat(<<"'">>, ReprEscape(chunks)), <<"'">>)

RECURSIVE PyRepr(_), ReprList(_, _), ReprItems(_, _)
PyRepr(x) ==
    CASE x.t = "none" -> <<"None">>
      [] x.t = "int" -> <<ToString(x.n)>>
      [] x.t = "str" -> ReprStr(x.s)
      [] x.t = "list" -> Cat(Cat(<<"[">>, ReprList(x.xs, 1)), <<"]">>)
      [] x.t = "dict" -> Cat(Cat(<<"{">>, ReprItems(x.items, 1)), <<"}">>)
      [] x.t = "circular" -> <<"[[...]]">>

ReprList(xs, i) ==
    IF i > Len(xs) THEN <<>>
    ELSE Cat(Cat(IF i > 1 THEN <<", ">> ELSE <<>>, PyRepr(xs[i])),
             ReprList(xs, i + 1))

ReprItems(items, i) ==
    IF i > Len(items) THEN <<>>
    ELSE Cat(Cat(Cat(IF i > 1 THEN <<", ">> ELSE <<>>, ReprStr(items[i][1])),
                 Cat(<<": ">>, PyRepr(items[i][2]))),
             ReprItems(items, i + 1))

\* The line print(a, b) writes for a str a and any b (sep is one space).
PrintLine(a, b) ==
    PyStr(Cat(Cat(a, <<" ">>), IF b.t = "str" THEN b.s ELSE PyRepr(b)))

-----------------------------------------------------------------------------
(* The environment: a function from the names that are set to their value. *)

DEPLOYMENT == "AZURE_OPENAI_4_EVAL_DEPLOYMENT_NAME"
API_VERSION == "AZURE_OPENAI_API_VERSION"
OPENAI_NAME == "AZURE_OPENAI_NAME"
SUBSCRIPTION == "AZURE_SUBSCRIPTION_ID"
RESOURCE_GROUP == "AZURE_RESOURCE_GROUP"
PROJECT_NAME == "AZURE_AI_PROJECT_NAME"
PF_LOGGING_LEVEL == "PF_LOGGING_LEVEL"

\* The names evaluate_article looks up.
ConfigNames ==
    {DEPLOYMENT, API_VERSION, OPENAI_NAME, SUBSCRIPTION, RESOURCE_GROUP,
     PROJECT_NAME}

\* The value a name holds in the k-th deployment the model draws from.
EnvValue(name, k) ==
    CASE name = DEPLOYMENT -> IF k = 1 THEN "gpt-4" ELSE "gpt-4o"
      [] name = API_VERSION -> IF k = 1 THEN "2023-07-01-preview" ELSE "2024-06-01"
      [] name = OPENAI_NAME -> IF k = 1 THEN "contoso" ELSE "fabrikam"
      [] name = SUBSCRIPTION -> IF k = 1 THEN "sub-1" ELSE "sub-2"
      [] name = RESOURCE_GROUP -> IF k = 1 THEN "rg-1" ELSE "rg-2"
      [] name = PROJECT_NAME -> IF k = 1 THEN "writer" ELSE "writer-2"

\* The import of the module sets PF_LOGGING_LEVEL.
EnvAfterImport(before) ==
    [n \in DOMAIN before \cup {PF_LOGGING_LEVEL} |->
        IF n = PF_LOGGING_LEVEL THEN "CRITICAL" ELSE before[n]]

\* os.environ[names[i]] for i = 1, 2, ...: the index of the first lookup that
\* raises KeyError, 0 when none does.
FirstMissing(e, names) ==
    IF \A i \in 1..Len(names) : names[i] \in DOMAIN e THEN 0
    ELSE CHOOSE i \in 1..Len(names) :
            /\ names[i] \notin DOMAIN e
            /\ \A j \in 1..(i - 1) : names[j] \in DOMAIN e

\* os.getenv(name) inside an f-string: str(None) is "None".
GetenvText(e, name) == IF name \in DOMAIN e THEN e[name] ELSE "None"

KeyError(name) == "KeyError: '" \o name \o "'"
VendorError == "vendor constructor raised"

-----------------------------------------------------------------------------
(* Spans. *)

NoSpan == [state |-> "none", name |-> "", parent |-> "", attrs |-> <<>>,
           status |-> "UNSET"]

\* The span trace.get_current_span() returns when no span is active.
InvalidSpan == "INVALID_SPAN"

\* Python None given as the context argument.
NoContext == "None"

\* set_span_in_context(span): a context whose current span is span.
SetSpanInContext(span) == span

\* tracer.start_as_current_span(name, context=ctx): the parent is the span of
\* ctx, or the ambient current span when ctx is None.
StartSpan(name, ctx, ambient) ==
    [state |-> "open", name |-> name,
     parent |-> IF ctx = NoContext THEN ambient ELSE ctx,
     attrs |-> <<>>, status |-> "UNSET"]

SetAttribute(span, key, value) ==
    [span EXCEPT !.attrs = Append(@, <<key, value>>)]

\* A span started without a with block: an exception leaves it open.
EndSpanUnlessRaised(span, raised) ==
    IF span.state = "none" \/ raised THEN span
    ELSE [span EXCEPT !.state = "ended"]

\* Leaving the with block: normally, or by an exception (which the span
\* records as status ERROR before it ends).
EndSpan(span, raised) ==
    IF span.state = "none" THEN span
    ELSE [span EXCEPT !.state = "ended",
                      !.status = IF raised THEN "ERROR" ELSE @]

HasAttr(span, key) == \E i \in 1..Len(span.attrs) : span.attrs[i][1] = key
Attr(span, key) ==
    span.attrs[CHOOSE i \in 1..Len(span.attrs) : span.attrs[i][1] = key][2]
AttrIndex(span, key) ==
    CHOOSE i \in 1..Len(span.attrs) : span.attrs[i][1] = key

-----------------------------------------------------------------------------
(* The result literals. *)

S(text) == PyStr(Plain(text))
Item(key, value) == <<Plain(key), value>>

\* evaluate_article scoring groundedness 4 instead of the fixed 5.
ArticleDummyResultRescored ==
    PyDict(<<
        Item("studio_url", S("https://dummy-eval.azure.com")),
        Item("metrics", PyDict(<<
            Item("relevance.gpt_relevance", PyInt(5)),
            Item("fluency.gpt_fluency", PyInt(5)),
            Item("coherence.gpt_coherence", PyInt(5)),
            Item("groundedness.gpt_groundedness", PyInt(4)),
            Item("violence.violence_defect_rate", PyInt(0)),
            Item("self_harm.self_harm_defect_rate", PyInt(0)),
            Item("hate_unfairness.hate_unfairness_defect_rate", PyInt(0)),
            Item("sexual.sexual_defect_rate", PyInt(0)) >>)),
        Item("rows", PyList(<< PyDict(<<
            Item("relevance.gpt_relevance", PyInt(5)),
            Item("fluency.gpt_fluency", PyInt(5)),
            Item("coherence.gpt_coherence", PyInt(5)),
            Item("groundedness.gpt_groundedness", PyInt(4)) >>) >>)) >>)

\* dummy_result of evaluate_article.
ArticleDummyResult ==
    PyDict(<<
        Item("studio_url", S("https://dummy-eval.azure.com")),
        Item("metrics", PyDict(<<
            Item("relevance.gpt_relevance", PyInt(5)),
            Item("fluency.gpt_fluency", PyInt(5)),
            Item("coherence.gpt_coherence", PyInt(5)),
            Item("groundedness.gpt_groundedness", PyInt(5)),
            Item("violence.violence_defect_rate", PyInt(0)),
            Item("self_harm.self_harm_defect_rate", PyInt(0)),
            Item("hate_unfairness.hate_unfairness_defect_rate", PyInt(0)),
            Item("sexual.sexual_defect_rate", PyInt(0)) >>)),
        Item("rows", PyList(<< PyDict(<<
            Item("relevance.gpt_relevance", PyInt(5)),
            Item("fluency.gpt_fluency", PyInt(5)),
            Item("coherence.gpt_coherence", PyInt(5)),
            Item("groundedness.gpt_groundedness", PyInt(5)) >>) >>)) >>)

\* dummy_result of ArticleEvaluator.__call__.
ArticleEvaluatorResult ==
    PyDict(<<
        Item("studio_url", S("https://dummy-eval.azure.com")),
        Item("metrics", PyDict(<<
            Item("relevance.gpt_relevance", PyInt(5)),
            Item("fluency.gpt_fluency", PyInt(5)),
            Item("coherence.gpt_coherence", PyInt(5)),
            Item("groundedness.gpt_groundedness", PyInt(5)),
            Item("violence.violence_defect_rate", PyInt(0)),
            Item("self_harm.self_harm_defect_rate", PyInt(0)),
            Item("hate_unfairness.hate_unfairness_defect_rate", PyInt(0)),
            Item("sexual.sexual_defect_rate", PyInt(0)) >>)),
        Item("rows", PyList(<< PyDict(<<
            Item("relevance.gpt_relevance", PyInt(5)),
            Item("fluency.gpt_fluency", PyInt(5)),
            Item("coherence.gpt_coherence", PyInt(5)),
            Item("groundedness.gpt_groundedness", PyInt(5)) >>) >>)) >>)

\* evaluate_image reporting the article's studio_url.
ImageDummyOutputWrongUrl ==
    PyDict(<<
        Item("studio_url", S("https://dummy-eval.azure.com")),
        Item("metrics", PyDict(<<
            Item("violence.score", PyInt(0)),
            Item("self_harm.score", PyInt(0)),
            Item("hate_unfairness.score", PyInt(0)),
            Item("sexual.score", PyInt(0)),
            Item("protected_material.score", PyInt(0)) >>)),
        Item("rows", PyList(<< PyDict(<<
            Item("violence.score", PyInt(0)),
            Item("self_harm.score", PyInt(0)),
            Item("hate_unfairness.score", PyInt(0)),
            Item("sexual.score", PyInt(0)),
            Item("protected_material.score", PyInt(0)) >>) >>)) >>)

\* dummy_output of evaluate_image.
ImageDummyOutput ==
    PyDict(<<
        Item("studio_url", S("https://dummy-image-eval.azure.com")),
        Item("metrics", PyDict(<<
            Item("violence.score", PyInt(0)),
            Item("self_harm.score", PyInt(0)),
            Item("hate_unfairness.score", PyInt(0)),
            Item("sexual.score", PyInt(0)),
            Item("protected_material.score", PyInt(0)) >>)),
        Item("rows", PyList(<< PyDict(<<
            Item("violence.score", PyInt(0)),
            Item("self_harm.score", PyInt(0)),
            Item("hate_unfairness.score", PyInt(0)),
            Item("sexual.score", PyInt(0)),
            Item("protected_material.score", PyInt(0)) >>) >>)) >>)

\* ImageEvaluator.__call__ with a row that reports a label the metrics lack.
ImageEvaluatorResultExtraRowKey ==
    PyDict(<<
        Item("studio_url", S("https://dummy-image-eval.azure.com")),
        Item("metrics", PyDict(<<
            Item("violence.score", PyInt(0)),
            Item("self_harm.score", PyInt(0)),
            Item("hate_unfairness.score", PyInt(0)),
            Item("sexual.score", PyInt(0)),
            Item("protected_material.score", PyInt(0)) >>)),
        Item("rows", PyList(<< PyDict(<<
            Item("violence.score", PyInt(0)),
            Item("self_harm.score", PyInt(0)),
            Item("hate_unfairness.score", PyInt(0)),
            Item("sexual.score", PyInt(0)),
            Item("protected_material.label", PyInt(0)) >>) >>)) >>)

\* dummy_output of ImageEvaluator.__call__.
ImageEvaluatorResult ==
    PyDict(<<
        Item("studio_url", S("https://dummy-image-eval.azure.com")),
        Item("metrics", PyDict(<<
            Item("violence.score", PyInt(0)),
            Item("self_harm.score", PyInt(0)),
            Item("hate_unfairness.score", PyInt(0)),
            Item("sexual.score", PyInt(0)),
            Item("protected_material.score", PyInt(0)) >>)),
        Item("rows", PyList(<< PyDict(<<
            Item("violence.score", PyInt(0)),
            Item("self_harm.score", PyInt(0)),
            Item("hate_unfairness.score", PyInt(0)),
            Item("sexual.score", PyInt(0)),
            Item("protected_material.score", PyInt(0)) >>) >>)) >>)

\* FriendlinessEvaluator.__call__ answering with the article's result.
FriendlinessResultAsArticle == ArticleEvaluatorResult

\* The value of FriendlinessEvaluator.__call__.
FriendlinessResult == PyDict(<< Item("score", PyInt(5)) >>)

-----------------------------------------------------------------------------
(* Calls.  A frame is one call of a function of the module: its arguments, *)
(* its position, its locals and what it has done so far.  stack holds the  *)
(* calls in progress (the caller below its callee), history the calls that *)
(* have ended, in the order they ended.                                    *)

EVALUATE_ARTICLE == "evaluate_article"
EVALUATE_IMAGE == "evaluate_image"
IN_BACKGROUND == "evaluate_article_in_background"
FRIENDLINESS_CALL == "FriendlinessEvaluator.__call__"
ARTICLE_CALL == "ArticleEvaluator.__call__"
IMAGE_CALL == "ImageEvaluator.__call__"

\* A local that is not bound yet, and the result of a call that has none.
Unbound == [t |-> "unbound"]

NewFrame(op, input, ambient, ctx, depth) ==
    [op |-> op, pc |-> "entry", depth |-> depth,
     input |-> input, ambient |-> ambient, trace_context |-> ctx,
     span |-> NoSpan,
     configuration |-> Unbound, project_scope |-> Unbound,
     eval_data |-> Unbound, dummy_result |-> Unbound,
     reads |-> <<>>, constructed |-> <<>>, invoked |-> <<>>,
     printed |-> <<>>, calls |-> <<>>,
     outcome |-> "running", result |-> Unbound, error |-> ""]

Top == stack[Len(stack)]
SetTop(f) == [stack EXCEPT ![Len(stack)] = f]
At(op, pc) == stack # <<>> /\ Top.op = op /\ Top.pc = pc

TopLevelCalls == Cardinality({i \in 1..Len(history) : history[i].depth = 0})

\* What a caller keeps of a call it made.
CallSummary(f) ==
    [op |-> f.op, input |-> f.input, trace_context |-> f.trace_context,
     outcome |-> f.outcome, result |-> f.result, error |-> f.error]

\* The frame f returns value: a with block it is in ends its span.
Returned(f, value) ==
    [f EXCEPT !.pc = "done", !.outcome = "returned", !.result = value,
              !.span = EndSpan(@, FALSE)]

\* The frame f raises err: nothing in the module handles an exception.
Raised(f, err) ==
    [f EXCEPT !.pc = "done", !.outcome = "raised", !.error = err,
              !.span = EndSpan(@, TRUE)]

\* The top frame, now f, raises err.  No function of the module has a try
\* statement, so the exception unwinds every caller.
Raise(f, err) ==
    LET top == Raised(f, err) IN
    /\ stack' = <<>>
    /\ history' =
         IF Len(stack) = 1 THEN Append(history, top)
         ELSE history \o
              <<top, Raised([stack[1] EXCEPT !.calls = Append(@, CallSummary(top))],
                            err)>>
    /\ UNCHANGED env

\* The top frame, now f, returns value to its caller.
Return(f, value) ==
    LET top == Returned(f, value) IN
    /\ history' = Append(history, top)
    /\ stack' =
         IF Len(stack) = 1 THEN <<>>
         ELSE <<[stack[1] EXCEPT !.pc = "called",
                                 !.calls = Append(@, CallSummary(top))]>>
    /\ UNCHANGED env

\* A function that runs to its end without calling into the module.
Complete(f, value) ==
    /\ stack = <<>>
    /\ TopLevelCalls < MaxCalls
    /\ history' = Append(history, Returned(f, value))
    /\ UNCHANGED <<env, stack>>

-----------------------------------------------------------------------------
(* The inputs the model draws from. *)

\* The environments a behaviour may start in, before the import: deployment
\* 1 with at most MaxUnset of its names unset, the environment that sets no
\* name, and a second deployment that sets every name to another value.
Environments ==
    {[n \in names |-> EnvValue(n, 1)] :
        names \in {s \in SUBSET ConfigNames :
                      s = {} \/ Cardinality(ConfigNames \ s) <= MaxUnset}}
        \cup {[n \in ConfigNames |-> EnvValue(n, 2)]}

\* Contexts given to evaluate_article, and ambient current spans.
RequestSpan == "request-span"

WellFormedData ==
    PyDict(<<
        Item("query", S("{}")),
        Item("context", PyStr(<<"tents ", Quote, "3-season", Quote>>)),
        Item("response", PyStr(<<"# Camping", Newline, "a", Backslash, "b">>)) >>)

\* <<data, trace_context>> of the calls of evaluate_article.
ArticleCalls ==
    {<<WellFormedData, NoContext>>,
     <<PyNone, SetSpanInContext(RequestSpan)>>,
     <<PyObject, NoContext>>,
     <<PyDict(<< Item("query", PyCircular), Item("response", PyObject) >>),
       NoContext>>,
     <<PyList(<< PyDeep >>), SetSpanInContext(RequestSpan)>>}

ImageMessages ==
    {PyList(<< PyDict(<< Item("role", S("user")),
                         Item("content", PyList(<< S("an image") >>)) >>) >>),
     PyObject}

BackgroundArgs ==
    <<[research_context |-> S("tents"), product_context |-> S("gear"),
      assignment_context |-> PyStr(<<"write ", Quote, "fun", Quote>>),
      research |-> PyDict(<< Item("web", PyList(<< S("a"), PyInt(2) >>)) >>),
      products |-> PyList(<< PyDict(<< Item("id", PyInt(1)) >>) >>),
      article |-> S("text")],
      [research_context |-> PyNone, product_context |-> PyNone,
      assignment_context |-> PyNone,
      research |-> PyList(<< PyObject, PyCircular >>),
      products |-> PyList(<<>>),
      article |-> PyNone],
      [research_context |-> S("tents"), product_context |-> S("gear"),
      assignment_context |-> S("write"),
      research |-> PyList(<<>>),
      products |-> PyList(<<>>),
      article |-> PyCircular]>>

\* <<arguments, current span of the caller>> of the calls of
\* evaluate_article_in_background.
BackgroundCalls ==
    {<<BackgroundArgs[1], RequestSpan>>,
     <<BackgroundArgs[2], RequestSpan>>,
     <<BackgroundArgs[3], InvalidSpan>>}

\* The constructors of ArticleEvaluatorParts that a behaviour may see raise:
\* the first, the first safety evaluator and the last of the vendor SDK.
FailurePoints == {1, 6, 12}

OperatorInputs == {S("data.jsonl"), PyObject}

-----------------------------------------------------------------------------
(* evaluate_article(data, trace_context) *)

\* AZURE_OPENAI_NAME looked up with os.environ[...] like its neighbours.
ConfigurationRequiredWithName == <<DEPLOYMENT, API_VERSION, OPENAI_NAME>>

\* The names looked up with os.environ[...] for configuration, in order.
ConfigurationRequired == <<DEPLOYMENT, API_VERSION>>

\* The endpoint built from two lookups of AZURE_OPENAI_NAME.
ConfigurationOptionalTwice == <<OPENAI_NAME, OPENAI_NAME>>

\* The name looked up with os.getenv(...) for configuration.
ConfigurationOptional == <<OPENAI_NAME>>

\* The names looked up with os.environ[...] for project_scope, in order.
ProjectScopeRequired == <<SUBSCRIPTION, RESOURCE_GROUP, PROJECT_NAME>>

Configuration(e) ==
    PyDict(<<
        Item("azure_deployment", S(e[DEPLOYMENT])),
        Item("api_version", S(e[API_VERSION])),
        Item("azure_endpoint",
             S("https://" \o GetenvText(e, OPENAI_NAME)
                          \o ".cognitiveservices.azure.com/")) >>)

ProjectScope(e) ==
    PyDict(<<
        Item("subscription_id", S(e[SUBSCRIPTION])),
        Item("resource_group_name", S(e[RESOURCE_GROUP])),
        Item("project_name", S(e[PROJECT_NAME])) >>)

\* The constructors ArticleEvaluator.__init__ runs, in evaluation order.
ArticleEvaluatorParts ==
    <<"RelevanceEvaluator", "FluencyEvaluator", "CoherenceEvaluator",
      "GroundednessEvaluator",
      "DefaultAzureCredential", "ViolenceEvaluator",
      "DefaultAzureCredential", "HateUnfairnessEvaluator",
      "DefaultAzureCredential", "SelfHarmEvaluator",
      "DefaultAzureCredential", "SexualEvaluator",
      "FriendlinessEvaluator">>

\* The constructors of the repository, which cannot raise.
OwnClasses == {"FriendlinessEvaluator", "ArticleEvaluator", "ImageEvaluator"}

\* evaluate_article running the evaluator it built.
InvokedEvaluator == <<ARTICLE_CALL>>

\* The objects evaluate_article invokes after it built the evaluator.
InvokedByEvaluateArticle == <<>>

\* "inputs" set to str(data) instead of json.dumps(data).
InputsAttributeStr(data) == PyStr(PyRepr(data))

\* The value of the span's "inputs" attribute.
InputsAttribute(data) == JsonDumps(data)

\* The value of the span's "output" attribute.
OutputAttribute(result) == JsonDumps(result)

CallEvaluateArticle(data, ctx) ==
    /\ stack = <<>>
    /\ TopLevelCalls < MaxCalls
    /\ stack' = <<[NewFrame(EVALUATE_ARTICLE, data, InvalidSpan, ctx, 0)
                      EXCEPT !.pc = "start_span"]>>
    /\ UNCHANGED <<env, history>>

EA_StartSpan ==
    /\ At(EVALUATE_ARTICLE, "start_span")
    /\ stack' = SetTop([Top EXCEPT
                          !.span = StartSpan("run_evaluators", Top.trace_context,
                                             Top.ambient),
                          !.pc = "set_inputs"])
    /\ UNCHANGED <<env, history>>

EA_SetInputs ==
    /\ At(EVALUATE_ARTICLE, "set_inputs")
    /\ IF Serializable(Top.input)
       THEN /\ stack' = SetTop([Top EXCEPT
                                  !.span = SetAttribute(@, "inputs",
                                                        InputsAttribute(Top.input)),
                                  !.pc = "configuration"])
            /\ UNCHANGED <<env, history>>
       ELSE Raise(Top, JsonError(Top.input))

EA_Configuration ==
    /\ At(EVALUATE_ARTICLE, "configuration")
    /\ LET k == FirstMissing(env, ConfigurationRequired) IN
       IF k = 0
       THEN /\ stack' = SetTop([Top EXCEPT
                                  !.reads = @ \o ConfigurationRequired
                                              \o ConfigurationOptional,
                                  !.configuration = Configuration(env),
                                  !.pc = "project_scope"])
            /\ UNCHANGED <<env, history>>
       ELSE Raise([Top EXCEPT !.reads = @ \o SubSeq(ConfigurationRequired, 1, k)],
                  KeyError(ConfigurationRequired[k]))

EA_ProjectScope ==
    /\ At(EVALUATE_ARTICLE, "project_scope")
    /\ LET k == FirstMissing(env, ProjectScopeRequired) IN
       IF k = 0
       THEN /\ stack' = SetTop([Top EXCEPT
                                  !.reads = @ \o ProjectScopeRequired,
                                  !.project_scope = ProjectScope(env),
                                  !.pc = "construct"])
            /\ UNCHANGED <<env, history>>
       ELSE Raise([Top EXCEPT !.reads = @ \o SubSeq(ProjectScopeRequired, 1, k)],
                  KeyError(ProjectScopeRequired[k]))

\* ArticleEvaluator(configuration, project_scope): every constructor succeeds.
EA_Construct ==
    /\ At(EVALUATE_ARTICLE, "construct")
    /\ stack' = SetTop([Top EXCEPT
                          !.constructed = @ \o ArticleEvaluatorParts
                                            \o <<"ArticleEvaluator">>,
                          !.invoked = @ \o InvokedByEvaluateArticle,
                          !.pc = "set_output"])
    /\ UNCHANGED <<env, history>>

\* ArticleEvaluator(configuration, project_scope): the k-th constructor, one of
\* the vendor SDK, raises.
EA_ConstructFails(k) ==
    /\ At(EVALUATE_ARTICLE, "construct")
    /\ ArticleEvaluatorParts[k] \notin OwnClasses
    /\ Raise([Top EXCEPT !.constructed = @ \o SubSeq(ArticleEvaluatorParts, 1, k - 1)],
             VendorError)

EA_SetOutput ==
    /\ At(EVALUATE_ARTICLE, "set_output")
    /\ stack' = SetTop([Top EXCEPT
                          !.dummy_result = ArticleDummyResult,
                          !.span = SetAttribute(@, "output",
                                                OutputAttribute(ArticleDummyResult)),
                          !.pc = "print"])
    /\ UNCHANGED <<env, history>>

EA_Print ==
    /\ At(EVALUATE_ARTICLE, "print")
    /\ stack' = SetTop([Top EXCEPT
                          !.printed = Append(@, PrintLine(Plain("results: "),
                                                          JsonDumps(Top.dummy_result))),
                          !.pc = "return"])
    /\ UNCHANGED <<env, history>>

EA_Return ==
    /\ At(EVALUATE_ARTICLE, "return")
    /\ Return(Top, Top.dummy_result)

-----------------------------------------------------------------------------
(* evaluate_article_in_background(research_context, ..., article) *)

ArgsDict(a) ==
    PyDict(<<
        Item("research_context", a.research_context),
        Item("product_context", a.product_context),
        Item("assignment_context", a.assignment_context),
        Item("research", a.research),
        Item("products", a.products),
        Item("article", a.article) >>)

QueryOf(args) ==
    PyDict(<<
        Item("research_context", Get(args, Plain("research_context"))),
        Item("product_context", Get(args, Plain("product_context"))),
        Item("assignment_context", Get(args, Plain("assignment_context"))) >>)

ContextOf(args) ==
    PyDict(<<
        Item("research", Get(args, Plain("research"))),
        Item("products", Get(args, Plain("products"))) >>)

ResponseOf(args) == Get(args, Plain("article"))

\* eval_data, when the three json.dumps calls return.
EvalData(args) ==
    PyDict(<<
        Item("query", JsonDumps(QueryOf(args))),
        Item("context", JsonDumps(ContextOf(args))),
        Item("response", JsonDumps(ResponseOf(args))) >>)

\* evaluate_article_in_background ending in "return evaluate_article(...)".
BackgroundResultOfCallee(calleeResult) == calleeResult

\* The exception of the first of the three json.dumps calls that raises,
\* NoError when eval_data is built.
EvalDataError(args) ==
    FirstError(<<QueryOf(args), ContextOf(args), ResponseOf(args)>>, 1)

\* What evaluate_article_in_background returns: it has no return statement.
BackgroundResult(calleeResult) == PyNone

CallInBackground(a, ambient) ==
    /\ stack = <<>>
    /\ TopLevelCalls < MaxCalls
    /\ stack' = <<[NewFrame(IN_BACKGROUND, ArgsDict(a), ambient, NoContext, 0)
                      EXCEPT !.pc = "context"]>>
    /\ UNCHANGED <<env, history>>

BG_Context ==
    /\ At(IN_BACKGROUND, "context")
    /\ stack' = SetTop([Top EXCEPT
                          !.trace_context = SetSpanInContext(Top.ambient),
                          !.pc = "eval_data"])
    /\ UNCHANGED <<env, history>>

BG_EvalData ==
    /\ At(IN_BACKGROUND, "eval_data")
    /\ IF EvalDataError(Top.input) = NoError
       THEN /\ stack' = SetTop([Top EXCEPT !.eval_data = EvalData(Top.input),
                                           !.pc = "call"])
            /\ UNCHANGED <<env, history>>
       ELSE Raise(Top, EvalDataError(Top.input))

BG_Call ==
    /\ At(IN_BACKGROUND, "call")
    /\ stack' = <<[Top EXCEPT !.pc = "calling"],
                  [NewFrame(EVALUATE_ARTICLE, Top.eval_data, Top.ambient,
                            Top.trace_context, 1)
                      EXCEPT !.pc = "start_span"]>>
    /\ UNCHANGED <<env, history>>

BG_Return ==
    /\ At(IN_BACKGROUND, "called")
    /\ Return(Top, BackgroundResult(Top.calls[Len(Top.calls)].result))

-----------------------------------------------------------------------------
(* The functions that run to their end in one step. *)

EvaluateImage(messages) ==
    Complete([NewFrame(EVALUATE_IMAGE, messages, InvalidSpan, NoContext, 0)
                 EXCEPT !.dummy_result = ImageDummyOutput,
                        !.printed = <<PrintLine(Plain("Image evaluation (lab mode):"),
                                                ImageDummyOutput)>>],
             ImageDummyOutput)

\* FriendlinessEvaluator()(response)
FriendlinessCall(response) ==
    Complete(NewFrame(FRIENDLINESS_CALL, response, InvalidSpan, NoContext, 0),
             FriendlinessResult)

\* evaluator(data_path=...) on an ArticleEvaluator a client built.
ArticleEvaluatorCall(data_path) ==
    Complete([NewFrame(ARTICLE_CALL, data_path, InvalidSpan, NoContext, 0)
                 EXCEPT !.dummy_result = ArticleEvaluatorResult],
             ArticleEvaluatorResult)

\* evaluator(messages=...) on an ImageEvaluator a client built.
ImageEvaluatorCall(messages) ==
    Complete([NewFrame(IMAGE_CALL, messages, InvalidSpan, NoContext, 0)
                 EXCEPT !.dummy_result = ImageEvaluatorResult],
             ImageEvaluatorResult)

-----------------------------------------------------------------------------
(* The specification. *)

\* After the import of the module, in any environment.
Init ==
    /\ \E before \in Environments : env = EnvAfterImport(before)
    /\ stack = <<>>
    /\ history = <<>>

Next ==
    \/ \E c \in ArticleCalls : CallEvaluateArticle(c[1], c[2])
    \/ EA_StartSpan
    \/ EA_SetInputs
    \/ EA_Configuration
    \/ EA_ProjectScope
    \/ EA_Construct
    \/ \E k \in FailurePoints : EA_ConstructFails(k)
    \/ EA_SetOutput
    \/ EA_Print
    \/ EA_Return
    \/ \E c \in BackgroundCalls : CallInBackground(c[1], c[2])
    \/ BG_Context
    \/ BG_EvalData
    \/ BG_Call
    \/ BG_Return
    \/ \E messages \in ImageMessages : EvaluateImage(messages)
    \/ \E response \in OperatorInputs : FriendlinessCall(response)
    \/ \E data_path \in OperatorInputs : ArticleEvaluatorCall(data_path)
    \/ \E messages \in ImageMessages : ImageEvaluatorCall(messages)

Spec == Init /\ [][Next]_vars

-----------------------------------------------------------------------------
(* What the claims speak of. *)

\* Every call, ended or in progress.
Frames == history \o stack

Ended(op) == {i \in 1..Len(history) : history[i].op = op}
ReturnedCalls(op) == {i \in Ended(op) : history[i].outcome = "returned"}

\* The names evaluate_article cannot do without.
RequiredNames ==
    {DEPLOYMENT, API_VERSION, SUBSCRIPTION, RESOURCE_GROUP, PROJECT_NAME}

QualityScores ==
    {Plain("relevance.gpt_relevance"), Plain("fluency.gpt_fluency"),
     Plain("coherence.gpt_coherence"), Plain("groundedness.gpt_groundedness")}

DefectRates ==
    {Plain("violence.violence_defect_rate"),
     Plain("self_harm.self_harm_defect_rate"),
     Plain("hate_unfairness.hate_unfairness_defect_rate"),
     Plain("sexual.sexual_defect_rate")}

SafetyScores ==
    {Plain("violence.score"), Plain("self_harm.score"),
     Plain("hate_unfairness.score"), Plain("sexual.score"),
     Plain("protected_material.score")}

TopKeys == {Plain("studio_url"), Plain("metrics"), Plain("rows")}

\* A dict with exactly the keys ks, each once.
DictOver(d, ks) == d.t = "dict" /\ Keys(d) = ks /\ Len(d.items) = Cardinality(ks)

Metrics(r) == Get(r, Plain("metrics"))
Rows(r) == Get(r, Plain("rows"))

\* r is the article literal of the specification.
IsArticleLiteral(r) ==
    /\ DictOver(r, TopKeys)
    /\ Get(r, Plain("studio_url")) = PyStr(<<"https://dummy-eval.azure.com">>)
    /\ DictOver(Metrics(r), QualityScores \cup DefectRates)
    /\ \A k \in QualityScores : Get(Metrics(r), k) = PyInt(5)
    /\ \A k \in DefectRates : Get(Metrics(r), k) = PyInt(0)
    /\ Rows(r).t = "list" /\ Len(Rows(r).xs) = 1
    /\ DictOver(Rows(r).xs[1], QualityScores)
    /\ \A k \in QualityScores : Get(Rows(r).xs[1], k) = PyInt(5)

\* r is the image literal of the specification.
IsImageLiteral(r) ==
    /\ DictOver(r, TopKeys)
    /\ Get(r, Plain("studio_url")) = PyStr(<<"https://dummy-image-eval.azure.com">>)
    /\ DictOver(Metrics(r), SafetyScores)
    /\ \A k \in SafetyScores : Get(Metrics(r), k) = PyInt(0)
    /\ Rows(r).t = "list" /\ Len(Rows(r).xs) = 1
    /\ DictOver(Rows(r).xs[1], SafetyScores)
    /\ \A k \in SafetyScores : Get(Rows(r).xs[1], k) = PyInt(0)

-----------------------------------------------------------------------------
\* C1: every call of evaluate_article that returns yields the article literal
\* (studio_url https://dummy-eval.azure.com, the four gpt_* scores 5, the four
\* defect rates 0, one row with the four gpt_* scores 5), whatever data,
\* trace_context and the environment are.
C1_ArticleLiteral ==
    \A i \in ReturnedCalls(EVALUATE_ARTICLE) : IsArticleLiteral(history[i].result)

\* Two calls with different data and trace_context have returned, in the
\* second deployment.
C1_Witness ==
    /\ DEPLOYMENT \in DOMAIN env
    /\ env[DEPLOYMENT] = EnvValue(DEPLOYMENT, 2)
    /\ \E i, j \in ReturnedCalls(EVALUATE_ARTICLE) :
          /\ history[i].input = WellFormedData
          /\ history[j].input = PyNone
          /\ history[i].trace_context # history[j].trace_context

\* C2: evaluate_image returns the image literal (studio_url
\* https://dummy-image-eval.azure.com, metrics and the single row mapping the
\* five safety scores to 0) for every messages and in every environment.
C2_ImageLiteral ==
    \A i \in Ended(EVALUATE_IMAGE) :
        /\ history[i].outcome = "returned"
        /\ IsImageLiteral(history[i].result)

\* evaluate_image has returned for two different messages where no
\* configuration name is set.
C2_Witness ==
    /\ DOMAIN env \cap ConfigNames = {}
    /\ \E i, j \in ReturnedCalls(EVALUATE_IMAGE) :
          history[i].input # history[j].input

\* C3: with the five required names set and the vendor constructors
\* succeeding, evaluate_article given JSON-serializable data ends by
\* returning, never by raising, whether or not AZURE_OPENAI_NAME is set;
\* evaluate_image never raises.
C3_NoRaiseWhenConfigured ==
    /\ \A i \in Ended(EVALUATE_ARTICLE) :
          (/\ RequiredNames \subseteq DOMAIN env
           /\ Serializable(history[i].input)
           /\ history[i].error # VendorError)
              => history[i].outcome = "returned"
    /\ \A i \in Ended(EVALUATE_IMAGE) : history[i].outcome = "returned"

\* evaluate_article has returned with AZURE_OPENAI_NAME unset, and
\* evaluate_image has returned.
C3_Witness ==
    /\ RequiredNames \subseteq DOMAIN env
    /\ OPENAI_NAME \notin DOMAIN env
    /\ ReturnedCalls(EVALUATE_ARTICLE) # {}
    /\ ReturnedCalls(EVALUATE_IMAGE) # {}

-----------------------------------------------------------------------------
ExternalOperations ==
    {EVALUATE_ARTICLE, EVALUATE_IMAGE, FRIENDLINESS_CALL, ARTICLE_CALL, IMAGE_CALL}

\* The span of f is an emitted, annotated span.
AnnotatedSpan(f) == f.span.state = "ended" /\ f.span.attrs # <<>>

\* C4 as the specification states it: each of evaluate_article,
\* evaluate_image and the three call operators accepts any input, emits an
\* annotated span and returns the article literal or the image literal.
C4_SameContract ==
    \A i \in 1..Len(history) :
        history[i].op \in ExternalOperations =>
            /\ history[i].outcome = "returned"
            /\ AnnotatedSpan(history[i])
            /\ \/ IsArticleLiteral(history[i].result)
               \/ IsImageLiteral(history[i].result)

\* The error e is a KeyError of an environment lookup.
IsKeyError(e) == \E n \in ConfigNames : e = KeyError(n)

\* The call f of evaluate_article ended where json.dumps(data) raised: with
\* that error, before any lookup or constructor, its span without attribute.
EndedAtSerialization(f) ==
    /\ f.outcome = "raised" /\ f.error # NoError
    /\ ~IsKeyError(f.error) /\ f.error # VendorError
    /\ f.span.attrs = <<>> /\ f.reads = <<>> /\ f.constructed = <<>>

\* C4 (amended): evaluate_article and ArticleEvaluator.__call__ return the
\* article literal and evaluate_image and ImageEvaluator.__call__ the image
\* literal, whatever the input, while FriendlinessEvaluator.__call__ returns
\* {"score": 5}; only evaluate_article emits a span, annotated with "inputs"
\* exactly when json.dumps(data) returns (when it raises, the call ends with
\* that error and the span has no attribute), and the other four emit none
\* and never raise.
C4_Contracts ==
    \A i \in 1..Len(history) :
        LET f == history[i] IN
        /\ f.op = EVALUATE_ARTICLE =>
              /\ f.span.state = "ended" /\ f.span.name = "run_evaluators"
              /\ Serializable(f.input) <=> HasAttr(f.span, "inputs")
              /\ ~Serializable(f.input) => EndedAtSerialization(f)
              /\ f.outcome = "returned" => IsArticleLiteral(f.result)
        /\ f.op = ARTICLE_CALL =>
              f.outcome = "returned" /\ IsArticleLiteral(f.result) /\ f.span = NoSpan
        /\ f.op \in {EVALUATE_IMAGE, IMAGE_CALL} =>
              f.outcome = "returned" /\ IsImageLiteral(f.result) /\ f.span = NoSpan
        /\ f.op = FRIENDLINESS_CALL =>
              /\ f.outcome = "returned" /\ f.span = NoSpan
              /\ f.result = PyDict(<< <<Plain("score"), PyInt(5)>> >>)

\* FriendlinessEvaluator.__call__ has returned for an input json.dumps cannot
\* encode, and evaluate_article has raised on a circular record, its span
\* closed without attribute.
C4_Witness ==
    /\ \E i \in ReturnedCalls(FRIENDLINESS_CALL) : history[i].input = PyObject
    /\ \E i \in Ended(EVALUATE_ARTICLE) :
          /\ history[i].error = "ValueError: Circular reference detected"
          /\ history[i].span.state = "ended" /\ history[i].span.attrs = <<>>

\* C5: every call of evaluate_article that returns has emitted one
\* run_evaluators span whose attributes are "inputs", the JSON text of data,
\* and then "output", the JSON text of the returned value; "output" is never
\* set before "inputs" nor on the span of a call that raised.
C5_SpanAttributes ==
    \A i \in 1..Len(Frames) :
        LET f == Frames[i] IN
        f.op = EVALUATE_ARTICLE =>
            /\ f.outcome = "returned" =>
                  /\ f.span.state = "ended" /\ f.span.name = "run_evaluators"
                  /\ f.span.attrs = << <<"inputs", PyStr(JsonEncode(f.input))>>,
                                       <<"output", PyStr(JsonEncode(f.result))>> >>
            /\ HasAttr(f.span, "output") =>
                  /\ HasAttr(f.span, "inputs")
                  /\ AttrIndex(f.span, "inputs") < AttrIndex(f.span, "output")
            /\ f.outcome = "raised" => ~HasAttr(f.span, "output")

\* A call with the well-formed record has returned, and its span carries the
\* texts json.dumps writes for that record and for the article literal.
C5_Witness ==
    \E i \in ReturnedCalls(EVALUATE_ARTICLE) :
        /\ history[i].input = WellFormedData
        /\ Text(Attr(history[i].span, "inputs").s) =
              "{\"query\": \"{}\", \"context\": \"tents \\\"3-season\\\"\", \"response\": \"# Camping\\na\\\\b\"}"
        /\ Text(Attr(history[i].span, "output").s) =
              "{\"studio_url\": \"https://dummy-eval.azure.com\", \"metrics\": {\"relevance.gpt_relevance\": 5, \"fluency.gpt_fluency\": 5, \"coherence.gpt_coherence\": 5, \"groundedness.gpt_groundedness\": 5, \"violence.violence_defect_rate\": 0, \"self_harm.self_harm_defect_rate\": 0, \"hate_unfairness.hate_unfairness_defect_rate\": 0, \"sexual.sexual_defect_rate\": 0}, \"rows\": [{\"relevance.gpt_relevance\": 5, \"fluency.gpt_fluency\": 5, \"coherence.gpt_coherence\": 5, \"groundedness.gpt_groundedness\": 5}]}"

\* The call f ended in an error, with no result and no ArticleEvaluator, and
\* its span was closed without "output".
FailedWithoutOutput(f) ==
    /\ f.outcome = "raised" /\ f.error # "" /\ f.result = Unbound
    /\ \A k \in 1..Len(f.constructed) : f.constructed[k] # "ArticleEvaluator"
    /\ f.span.state = "ended" /\ ~HasAttr(f.span, "output")

\* C6 as the specification states it: with a required name unset, the call
\* ends in an uncaught error, with no result and no ArticleEvaluator, and the
\* span, which has "inputs" set, is closed without "output".
C6_MissingNameRaises ==
    \A i \in Ended(EVALUATE_ARTICLE) :
        ~(RequiredNames \subseteq DOMAIN env) =>
            /\ FailedWithoutOutput(history[i])
            /\ HasAttr(history[i].span, "inputs")

\* C6 (amended): with a required name unset, the call ends in an uncaught
\* error, with no result and no ArticleEvaluator, and the span is closed
\* without "output"; the span has "inputs" set when json.dumps(data)
\* returned, and when json.dumps(data) raised, that error ended the call
\* before any name was looked up and the span has no attribute.
C6_MissingNameRaisesAmended ==
    \A i \in Ended(EVALUATE_ARTICLE) :
        LET f == history[i] IN
        ~(RequiredNames \subseteq DOMAIN env) =>
            /\ FailedWithoutOutput(f)
            /\ Serializable(f.input) => HasAttr(f.span, "inputs")
            /\ ~Serializable(f.input) => EndedAtSerialization(f)

\* With only AZURE_AI_PROJECT_NAME unset, a call with the well-formed record
\* has raised its KeyError at the sixth lookup, and a call with a record
\* nested too deep has raised RecursionError without any lookup.
C6_Witness ==
    /\ RequiredNames \ DOMAIN env = {PROJECT_NAME}
    /\ \E i \in Ended(EVALUATE_ARTICLE) :
          /\ history[i].input = WellFormedData
          /\ history[i].outcome = "raised"
          /\ history[i].error = "KeyError: 'AZURE_AI_PROJECT_NAME'"
          /\ Len(history[i].reads) = 6
    /\ \E i \in Ended(EVALUATE_ARTICLE) :
          /\ history[i].input = PyList(<< PyDeep >>)
          /\ history[i].error = RecursionError
          /\ history[i].reads = <<>>

PublicFunctions == {EVALUATE_ARTICLE, EVALUATE_IMAGE, IN_BACKGROUND}

VendorEvaluators ==
    {"RelevanceEvaluator", "FluencyEvaluator", "CoherenceEvaluator",
     "GroundednessEvaluator", "ViolenceEvaluator", "HateUnfairnessEvaluator",
     "SelfHarmEvaluator", "SexualEvaluator"}

Count(seq, x) == Cardinality({k \in 1..Len(seq) : seq[k] = x})

\* C7: no public function invokes an object it constructed; a call of
\* evaluate_article that returns has constructed one ArticleEvaluator, each of
\* the eight vendor evaluators once and one FriendlinessEvaluator;
\* evaluate_image constructs nothing and no public function constructs an
\* ImageEvaluator.
C7_ConstructedNeverInvoked ==
    \A i \in 1..Len(Frames) :
        LET f == Frames[i] IN
        f.op \in PublicFunctions =>
            /\ f.invoked = <<>>
            /\ Count(f.constructed, "ImageEvaluator") = 0
            /\ f.op = EVALUATE_IMAGE => f.constructed = <<>>
            /\ (f.op = EVALUATE_ARTICLE /\ f.outcome = "returned") =>
                  /\ Count(f.constructed, "ArticleEvaluator") = 1
                  /\ Count(f.constructed, "FriendlinessEvaluator") = 1
                  /\ \A v \in VendorEvaluators : Count(f.constructed, v) = 1

\* evaluate_article has returned after building its evaluator, and
\* evaluate_image has returned.
C7_Witness ==
    /\ \E i \in ReturnedCalls(EVALUATE_ARTICLE) :
          Count(history[i].constructed, "ArticleEvaluator") = 1
    /\ ReturnedCalls(EVALUATE_IMAGE) # {}

\* What a call was given.
SameCall(f, g) ==
    /\ f.op = g.op /\ f.input = g.input
    /\ f.trace_context = g.trace_context /\ f.ambient = g.ambient

\* What a call did and gave back.
SameEffect(f, g) ==
    /\ f.outcome = g.outcome /\ f.result = g.result /\ f.error = g.error
    /\ f.span = g.span /\ f.printed = g.printed /\ f.reads = g.reads

C8_State ==
    /\ \A i \in 1..Len(Frames) :
          \A n \in ConfigNames \cup {PF_LOGGING_LEVEL} :
             Count(Frames[i].reads, n) <= 1
    /\ \A i, j \in 1..Len(history) :
          (/\ SameCall(history[i], history[j])
           /\ history[i].error # VendorError
           /\ history[j].error # VendorError)
              => SameEffect(history[i], history[j])

\* C8: no step of a call changes the environment, a call reads each
\* environment variable at most once, and two calls given the same arguments
\* (none cut short by the vendor SDK) do and return the same, however many
\* calls came before.
C8_Stateless == [][env' = env]_vars /\ []C8_State

\* The same call of evaluate_article has returned twice.
C8_Witness ==
    \E i, j \in ReturnedCalls(EVALUATE_ARTICLE) :
        /\ i < j
        /\ history[i].depth = 0 /\ history[j].depth = 0
        /\ SameCall(history[i], history[j])
        /\ Len(history[j].reads) = 6

ResultOperations == {EVALUATE_ARTICLE, EVALUATE_IMAGE, ARTICLE_CALL, IMAGE_CALL}

IsNumber(x) == x.t = "int"

\* Every value of the dict d is a number.
NumbersOnly(d) ==
    d.t = "dict" /\ \A k \in 1..Len(d.items) : IsNumber(d.items[k][2])

\* metrics maps names to numbers, rows is a sequence of such mappings, and
\* every key of a row is a key of metrics with the same value.
MetricsAndRows(r) ==
    /\ NumbersOnly(Metrics(r))
    /\ Rows(r).t = "list"
    /\ \A k \in 1..Len(Rows(r).xs) :
          /\ NumbersOnly(Rows(r).xs[k])
          /\ \A key \in Keys(Rows(r).xs[k]) :
                /\ key \in Keys(Metrics(r))
                /\ Get(Rows(r).xs[k], key) = Get(Metrics(r), key)

\* C9 as the specification states it: a result record consists of "metrics"
\* and "rows", every value stored in it is a number, and every key of a row
\* is a key of "metrics" with the same value.
C9_MetricsAndRowsOnly ==
    \A i \in 1..Len(history) :
        (history[i].op \in ResultOperations /\ history[i].outcome = "returned") =>
            /\ DictOver(history[i].result, {Plain("metrics"), Plain("rows")})
            /\ MetricsAndRows(history[i].result)

\* C9 (amended): a result record consists of "studio_url", a string, of
\* "metrics" and of "rows"; every value stored in "metrics" and in a row is a
\* number, and every key of a row is a key of "metrics" with the same value.
C9_ResultRecord ==
    \A i \in 1..Len(history) :
        (history[i].op \in ResultOperations /\ history[i].outcome = "returned") =>
            /\ DictOver(history[i].result, TopKeys)
            /\ Get(history[i].result, Plain("studio_url")).t = "str"
            /\ MetricsAndRows(history[i].result)

\* evaluate_article and ImageEvaluator.__call__ have both returned a record.
C9_Witness ==
    /\ ReturnedCalls(EVALUATE_ARTICLE) # {}
    /\ ReturnedCalls(IMAGE_CALL) # {}

\* The record evaluate_article_in_background hands over for the arguments
\* args: the keys query, context and response, each a JSON text.
IsEvalData(d, args) ==
    /\ d.t = "dict" /\ Len(d.items) = 3
    /\ d.items[1] = <<Plain("query"), PyStr(JsonEncode(QueryOf(args)))>>
    /\ d.items[2] = <<Plain("context"), PyStr(JsonEncode(ContextOf(args)))>>
    /\ d.items[3] = <<Plain("response"), PyStr(JsonEncode(ResponseOf(args)))>>

\* The call f of evaluate_article_in_background called evaluate_article once,
\* with the record and the caller's span, waited for it, and ended as it did.
CalledOnce(f, i) ==
    /\ Len(f.calls) = 1
    /\ f.calls[1].op = EVALUATE_ARTICLE
    /\ IsEvalData(f.calls[1].input, f.input)
    /\ f.calls[1].trace_context = SetSpanInContext(f.ambient)
    /\ i > 1 /\ history[i - 1].depth = 1
    /\ CallSummary(history[i - 1]) = f.calls[1]
    /\ f.calls[1].outcome = "returned" => f.outcome = "returned" /\ f.result = PyNone
    /\ f.calls[1].outcome = "raised" =>
          f.outcome = "raised" /\ f.error = f.calls[1].error /\ f.result = Unbound

\* While evaluate_article runs for it, evaluate_article_in_background waits.
Synchronous ==
    Len(stack) = 2 =>
        /\ stack[1].op = IN_BACKGROUND /\ stack[1].pc = "calling"
        /\ stack[2].op = EVALUATE_ARTICLE /\ stack[2].depth = 1

\* C10 as the specification states it: evaluate_article_in_background builds
\* the record, calls evaluate_article once, synchronously, with the record and
\* the caller's span, returns nothing and passes on the callee's error.
C10_CallsOnce ==
    /\ Synchronous
    /\ \A i \in Ended(IN_BACKGROUND) : CalledOnce(history[i], i)

\* C10 (amended): when the three json.dumps calls return,
\* evaluate_article_in_background builds the record, calls evaluate_article
\* once, synchronously, with the record and the caller's span, returns
\* nothing and passes on the callee's error; when one of them raises, that
\* error ends the function and evaluate_article is not called.
C10_CallsOnceIfSerializable ==
    /\ Synchronous
    /\ \A i \in Ended(IN_BACKGROUND) :
          LET f == history[i] IN
          IF Serializable(f.input)
          THEN CalledOnce(f, i)
          ELSE /\ f.calls = <<>> /\ f.outcome = "raised" /\ f.result = Unbound
               /\ f.error # NoError /\ ~IsKeyError(f.error) /\ f.error # VendorError
               /\ i > 1 => history[i - 1].depth = 0

\* A call given a circular article has raised ValueError without calling
\* evaluate_article.
RaisedBeforeCall ==
    \E i \in Ended(IN_BACKGROUND) :
        /\ history[i].error = "ValueError: Circular reference detected"
        /\ history[i].calls = <<>>

\* evaluate_article_in_background has returned None after one call, whose
\* record holds the texts json.dumps writes for the first arguments, and
\* another call has raised while building its record.
C10_Witness ==
    RaisedBeforeCall /\
    \E i \in ReturnedCalls(IN_BACKGROUND) :
        /\ history[i].result = PyNone
        /\ history[i].ambient = RequestSpan
        /\ history[i - 1].span.parent = RequestSpan
        /\ Text(Get(history[i].calls[1].input, Plain("query")).s) =
              "{\"research_context\": \"tents\", \"product_context\": \"gear\", \"assignment_context\": \"write \\\"fun\\\"\"}"
        /\ Text(Get(history[i].calls[1].input, Plain("context")).s) =
              "{\"research\": {\"web\": [\"a\", 2]}, \"products\": [{\"id\": 1}]}"
        /\ Text(Get(history[i].calls[1].input, Plain("response")).s) = "\"text\""
        /\ Text(Attr(history[i - 1].span, "inputs").s) =
              "{\"query\": \"{\\\"research_context\\\": \\\"tents\\\", \\\"product_context\\\": \\\"gear\\\", \\\"assignment_context\\\": \\\"write \\\\\\\"fun\\\\\\\"\\\"}\", \"context\": \"{\\\"research\\\": {\\\"web\\\": [\\\"a\\\", 2]}, \\\"products\\\": [{\\\"id\\\": 1}]}\", \"response\": \"\\\"text\\\"\"}"

====
